---- MODULE Spec2Model ----
(***************************************************************************)
(* A model of plugin.EntryAttributes (src/cmd/history.go, lines 85-372):   *)
(* the presence-tracked attribute record, its fluent setters, ToMap, Meta, *)
(* and the JSON encoder/decoder MarshalJSON / UnmarshalJSON.               *)
(*                                                                         *)
(* Representation of values                                                *)
(*  - an unsigned integer (uint64, os.FileMode, the digits of a JSON       *)
(*    number) is a tuple of four 16-bit limbs, most significant first, so  *)
(*    that 64-bit sizes and the 53-bit mantissa of a float64 are exact;    *)
(*  - a moment (time.Time) is a natural number: 0 is the zero Time and     *)
(*    k > 0 is the moment k-1 seconds after the Unix epoch (all moments of *)
(*    the model lie in the years that Time.MarshalJSON accepts);           *)
(*  - a string is a tuple of string pieces;                                *)
(*  - a Go value held in an interface{} is a record [k |-> dynamic type,   *)
(*    v |-> payload]; a JSON document is a record [k |-> JSON kind,        *)
(*    v |-> payload].                                                      *)
(***************************************************************************)
EXTENDS Integers, Sequences, FiniteSets, TLC

VARIABLES
    a,       \* the EntryAttributes record the setters and UnmarshalJSON act on
    log,     \* per attribute, the last value handed to its setter (call log)
    call,    \* the most recent call: its name and the JSON kind of its input
    err,     \* what the most recent call returned
    status,  \* "running", or "aborted" once a call panicked / was fatal
    wire,    \* the output of MarshalJSON
    b        \* the fresh record that UnmarshalJSON filled from wire

vars == <<a, log, call, err, status, wire, b>>

\* Moments of the model are 0..MaxMoment.
MaxMoment == 2

----------------------------------------------------------------------------
(* Unsigned integers as limbs *)

LimbBase == 2 ^ 16

\* The number n < 2^31 as limbs.
U(n) == <<0, 0, n \div LimbBase, n % LimbBase>>

Pow2(e) == 2 ^ e

\* Number of significant bits of a limb.
BitLen(x) == CHOOSE n \in 0..17 : x < Pow2(n) /\ (n = 0 \/ x >= Pow2(n - 1))

\* Propagates the carries of a limb tuple whose low limb may have overflowed.
\* The top limb is left as it is: a value of LimbBase there stands for 2^64.
Carry(n) ==
    LET l4 == n[4] % LimbBase
        s3 == n[3] + (n[4] \div LimbBase)
        l3 == s3 % LimbBase
        s2 == n[2] + (s3 \div LimbBase)
        l2 == s2 % LimbBase
        l1 == n[1] + (s2 \div LimbBase)
    IN  <<l1, l2, l3, l4>>

\* The float64 nearest to the integer n (round half to even on a 53-bit
\* mantissa): what json.Unmarshal stores for a JSON number decoded into an
\* interface{}.
RoundToFloat64(n) ==
    IF n[1] < Pow2(5)
    THEN n
    ELSE LET d    == BitLen(n[1]) - 5
             q    == Pow2(d)
             r    == n[4] % q
             half == q \div 2
             odd  == (n[4] \div q) % 2 = 1
             down == <<n[1], n[2], n[3], n[4] - r>>
         IN  IF r > half \/ (r = half /\ odd)
             THEN Carry(<<n[1], n[2], n[3], n[4] - r + q>>)
             ELSE down

----------------------------------------------------------------------------
(* Go values and JSON documents *)

GoNil        == [k |-> "nil", v |-> <<>>]
GoBool       == [k |-> "bool", v |-> <<>>]
GoSlice      == [k |-> "[]interface{}", v |-> <<>>]
GoChan       == [k |-> "chan", v |-> <<>>]
GoString(s)  == [k |-> "string", v |-> s]
GoTime(t)    == [k |-> "time.Time", v |-> <<t>>]
GoUint64(n)  == [k |-> "uint64", v |-> n]
GoFileMode(n) == [k |-> "os.FileMode", v |-> n]
GoFloat64(n) == [k |-> "float64", v |-> n]
GoBytes(doc) == [k |-> "[]byte", v |-> <<doc>>]
\* A JSONObject (map[string]interface{}): a non-nil map, or the nil map.
GoMap(m)     == [k |-> "JSONObject", v |-> m]
NilMap       == [k |-> "JSONObject(nil)", v |-> <<>>]

JNull        == [k |-> "null", v |-> <<>>]
JBool        == [k |-> "bool", v |-> <<>>]
JArr         == [k |-> "array", v |-> <<>>]
JNum(n)      == [k |-> "number", v |-> n]
JStr(s)      == [k |-> "string", v |-> s]
JObj(m)      == [k |-> "object", v |-> m]
\* Bytes that are not a JSON text at all.
JMalformed   == [k |-> "malformed", v |-> <<>>]
\* No bytes were produced (json.Marshal returned an error).
NoBytes      == [k |-> "none", v |-> <<>>]

EmptyMap == [x \in {} |-> GoNil]

----------------------------------------------------------------------------
(* Standard-library conversions used by the record *)

\* Bit i (0 = least significant) of a 32-bit value held in the two low limbs.
Bit(n, i) == IF i >= 16 THEN (n[3] \div Pow2(i - 16)) % 2 ELSE (n[4] \div Pow2(i)) % 2

TypeChars == <<"d", "a", "l", "T", "L", "D", "p", "S", "u", "g", "c", "t", "?">>
RwxChars  == <<"r", "w", "x", "r", "w", "x", "r", "w", "x">>

\* os.FileMode.String(): the letters of the type bits that are set (or "-"
\* when none is), then the nine permission bits.
ModeString(m) ==
    LET idx   == SelectSeq([i \in 1..13 |-> i], LAMBDA i : Bit(m, 32 - i) = 1)
        types == IF Len(idx) = 0 THEN <<"-">> ELSE [j \in 1..Len(idx) |-> TypeChars[idx[j]]]
        perms == [i \in 1..9 |-> IF Bit(m, 9 - i) = 1 THEN RwxChars[i] ELSE "-"]
    IN  types \o perms

\* time.Time.MarshalJSON: the moment as a quoted RFC 3339 string.
FormatTime(t) == <<"RFC3339Nano", ToString(t)>>

RECURSIVE JSONMarshal(_)
\* json.Marshal(v): the JSON document of a Go value, NoBytes on an error.
JSONMarshal(v) ==
    CASE v.k \in {"nil", "JSONObject(nil)"} -> JNull
      [] v.k = "bool" -> JBool
      [] v.k = "[]interface{}" -> JArr
      [] v.k = "string" -> JStr(v.v)
      [] v.k = "time.Time" -> JStr(FormatTime(v.v[1]))
      [] v.k \in {"uint64", "os.FileMode", "float64"} -> JNum(v.v)
      [] v.k = "chan" -> NoBytes
      [] v.k \in {"JSONObject", "struct"} ->
            LET docs == [key \in DOMAIN v.v |-> JSONMarshal(v.v[key])]
            IN  IF \E key \in DOMAIN docs : docs[key].k = "none"
                THEN NoBytes
                ELSE JObj(docs)

RECURSIVE JSONDecodeValue(_)
\* json.Unmarshal of a JSON value into an interface{}: numbers become
\* float64, objects map[string]interface{}, null the nil interface.
JSONDecodeValue(doc) ==
    CASE doc.k = "null" -> GoNil
      [] doc.k = "bool" -> GoBool
      [] doc.k = "array" -> GoSlice
      [] doc.k = "string" -> GoString(doc.v)
      [] doc.k = "number" -> GoFloat64(RoundToFloat64(doc.v))
      [] doc.k = "object" -> GoMap([key \in DOMAIN doc.v |-> JSONDecodeValue(doc.v[key])])

\* json.Unmarshal(data, &mp) for a map variable mp holding cur: a JSON object
\* fills the map, null leaves it alone without an error, every other
\* document or malformed text is an error.
JSONUnmarshalMap(data, cur) ==
    CASE data.k = "object" ->
            [err |-> FALSE,
             obj |-> GoMap([key \in DOMAIN data.v |-> JSONDecodeValue(data.v[key])])]
      [] data.k = "null" -> [err |-> FALSE, obj |-> cur]
      [] OTHER -> [err |-> TRUE, obj |-> cur]

----------------------------------------------------------------------------
(* ToJSONObject *)

\* Returns the JSONObject of v; panic is TRUE when the call does not return
\* (json.Marshal failed, or errz.Fatal got an error).
ToJSONObject(v) ==
    IF v.k \in {"JSONObject", "JSONObject(nil)"}
    THEN [panic |-> FALSE, obj |-> v]
    ELSE LET inrec == IF v.k = "[]byte" THEN v.v[1] ELSE JSONMarshal(v)
             res   == JSONUnmarshalMap(inrec, NilMap)
         IN  IF inrec.k = "none"
             THEN [panic |-> TRUE, obj |-> NilMap]
             ELSE [panic |-> res.err, obj |-> res.obj]

----------------------------------------------------------------------------
(* The record and its methods *)

AttrNames == {"atime", "mtime", "ctime", "mode", "size"}

\* EntryAttributes{}: the zero value of the struct.
EntryAttributes ==
    [atime |-> 0, mtime |-> 0, ctime |-> 0,
     mode |-> U(0), hasMode |-> FALSE,
     size |-> U(0), hasSize |-> FALSE,
     meta |-> NilMap]

\* time.Time.IsZero
IsZero(t) == t = 0

HasAtime(r) == ~IsZero(r.atime)
Atime(r)    == r.atime
\* A SetAtime that skips zero moments.
SetAtime_KeepsOnZero(r, atime) == IF IsZero(atime) THEN r ELSE [r EXCEPT !.atime = atime]
SetAtime(r, atime) == [r EXCEPT !.atime = atime]

HasMtime(r) == ~IsZero(r.mtime)
Mtime(r)    == r.mtime
SetMtime(r, mtime) == [r EXCEPT !.mtime = mtime]

HasCtime(r) == ~IsZero(r.ctime)
Ctime(r)    == r.ctime
SetCtime(r, ctime) == [r EXCEPT !.ctime = ctime]

HasMode(r) == r.hasMode
Mode(r)    == r.mode
\* A SetMode that marks the size present as well.
SetMode_MarksSize(r, mode) == [r EXCEPT !.mode = mode, !.hasMode = TRUE, !.hasSize = TRUE]
SetMode(r, mode) == [r EXCEPT !.mode = mode, !.hasMode = TRUE]

HasSize(r) == r.hasSize
Size(r)    == r.size
\* A SetSize that takes presence from the value.
SetSize_PresenceFromValue(r, size) == [r EXCEPT !.size = size, !.hasSize = (size # U(0))]
SetSize(r, size) == [r EXCEPT !.size = size, !.hasSize = TRUE]

\* SetMeta: rec is the record after the call, panic says the call never
\* returned.
SetMeta(r, obj) ==
    LET j == ToJSONObject(obj)
    IN  [panic |-> j.panic,
         rec   |-> IF j.panic THEN r ELSE [r EXCEPT !.meta = j.obj]]

RECURSIVE Meta(_)

\* A ToMap that adds the meta entry whenever an override is stored.
ToMap_MetaWhenStored(r, includeMeta) ==
    LET keys == {key \in AttrNames :
                    \/ key = "atime" /\ HasAtime(r)
                    \/ key = "mtime" /\ HasMtime(r)
                    \/ key = "ctime" /\ HasCtime(r)
                    \/ key = "mode" /\ HasMode(r)
                    \/ key = "size" /\ HasSize(r)}
                \cup (IF includeMeta \/ r.meta # NilMap THEN {"meta"} ELSE {})
    IN  [key \in keys |->
            CASE key = "atime" -> GoTime(Atime(r))
              [] key = "mtime" -> GoTime(Mtime(r))
              [] key = "ctime" -> GoTime(Ctime(r))
              [] key = "mode" -> GoString(ModeString(Mode(r)))
              [] key = "size" -> GoUint64(Size(r))
              [] key = "meta" -> Meta(r)]

ToMap(r, includeMeta) ==
    LET keys == {key \in AttrNames :
                    \/ key = "atime" /\ HasAtime(r)
                    \/ key = "mtime" /\ HasMtime(r)
                    \/ key = "ctime" /\ HasCtime(r)
                    \/ key = "mode" /\ HasMode(r)
                    \/ key = "size" /\ HasSize(r)}
                \cup (IF includeMeta THEN {"meta"} ELSE {})
    IN  [key \in keys |->
            CASE key = "atime" -> GoTime(Atime(r))
              [] key = "mtime" -> GoTime(Mtime(r))
              [] key = "ctime" -> GoTime(Ctime(r))
              [] key = "mode" -> GoString(ModeString(Mode(r)))
              [] key = "size" -> GoUint64(Size(r))
              [] key = "meta" -> Meta(r)]

Meta(r) ==
    IF r.meta = NilMap
    THEN GoMap(ToMap(r, FALSE))
    ELSE r.meta

\* MarshalJSON: the document, or NoBytes when json.Marshal returns an error.
MarshalJSON(r) ==
    LET m  == ToMap(r, TRUE)
        m2 == IF HasMode(r)
              THEN [m EXCEPT !["mode"] = GoFileMode(Mode(r))]
              ELSE m
    IN  JSONMarshal(GoMap(m2))

----------------------------------------------------------------------------
(* The coercion service (package munge) *)

\* time.Parse of an RFC 3339 string: ok is FALSE when s is no such string.
ParseTime(s) ==
    IF \E t \in 0..MaxMoment : FormatTime(t) = s
    THEN [ok |-> TRUE, val |-> CHOOSE t \in 0..MaxMoment : FormatTime(t) = s]
    ELSE [ok |-> FALSE, val |-> 0]

\* munge.ToTime: a decoded number is seconds since the Unix epoch, a decoded
\* string is parsed, anything else is an error.
ToTime(v) ==
    CASE v.k = "time.Time" -> [err |-> FALSE, val |-> v.v[1]]
      [] v.k = "float64" -> [err |-> FALSE, val |-> v.v[4] + 1]
      [] v.k = "string" -> [err |-> ~ParseTime(v.v).ok, val |-> ParseTime(v.v).val]
      [] OTHER -> [err |-> TRUE, val |-> 0]

\* The decimal strings munge.ToSize is given in this model.
DecimalSizes == <<[s |-> <<"0">>, n |-> U(0)], [s |-> <<"42">>, n |-> U(42)]>>

\* munge.ToSize: a decoded number is converted to uint64, a decoded string
\* is parsed, anything else is an error.
ToSize(v) ==
    CASE v.k = "uint64" -> [err |-> FALSE, val |-> v.v]
      [] v.k = "float64" -> [err |-> FALSE, val |-> v.v]
      [] v.k = "string" ->
            IF \E i \in 1..Len(DecimalSizes) : DecimalSizes[i].s = v.v
            THEN [err |-> FALSE,
                  val |-> DecimalSizes[CHOOSE i \in 1..Len(DecimalSizes) :
                                            DecimalSizes[i].s = v.v].n]
            ELSE [err |-> TRUE, val |-> U(0)]
      [] OTHER -> [err |-> TRUE, val |-> U(0)]

----------------------------------------------------------------------------
(* UnmarshalJSON *)

ErrNil        == <<>>
ErrNonObject  == <<"plugin.EntryAttributes.UnmarshalJSON received a non-JSON object">>
ErrMetaShape  == <<"meta is not a JSON object">>
ErrMarshal    == <<"json.Marshal">>
attrMungeError(name) ==
    <<"plugin.EntryAttributes.UnmarshalJSON: could not munge the attribute", name>>

\* os.FileMode(raw) of a float64: the value itself when it fits 32 bits (the
\* documents of this model carry no other mode).
FileModeOf(raw) == <<0, 0, raw[3], raw[4]>>

\* One decoding step of UnmarshalJSON. st is [rec |-> the receiver so far,
\* calls |-> the setters called so far with their arguments, err |-> the
\* error returned, ErrNil while still running].
UnmarshalAtime(st, mp) ==
    IF st.err # ErrNil \/ "atime" \notin DOMAIN mp THEN st
    ELSE LET t == ToTime(mp["atime"])
         IN  IF t.err THEN [st EXCEPT !.err = attrMungeError("atime")]
             ELSE [st EXCEPT !.rec = SetAtime(st.rec, t.val),
                             !.calls = ("atime" :> t.val) @@ st.calls]

UnmarshalMtime(st, mp) ==
    IF st.err # ErrNil \/ "mtime" \notin DOMAIN mp THEN st
    ELSE LET t == ToTime(mp["mtime"])
         IN  IF t.err THEN [st EXCEPT !.err = attrMungeError("mtime")]
             ELSE [st EXCEPT !.rec = SetMtime(st.rec, t.val),
                             !.calls = ("mtime" :> t.val) @@ st.calls]

UnmarshalCtime(st, mp) ==
    IF st.err # ErrNil \/ "ctime" \notin DOMAIN mp THEN st
    ELSE LET t == ToTime(mp["ctime"])
         IN  IF t.err THEN [st EXCEPT !.err = attrMungeError("ctime")]
             ELSE [st EXCEPT !.rec = SetCtime(st.rec, t.val),
                             !.calls = ("ctime" :> t.val) @@ st.calls]

UnmarshalMode(st, mp) ==
    IF st.err # ErrNil \/ "mode" \notin DOMAIN mp THEN st
    ELSE IF mp["mode"].k = "float64"
         THEN [st EXCEPT !.rec = SetMode(st.rec, FileModeOf(mp["mode"].v)),
                         !.calls = ("mode" :> FileModeOf(mp["mode"].v)) @@ st.calls]
         ELSE [st EXCEPT !.err = attrMungeError("mode")]

UnmarshalSize(st, mp) ==
    IF st.err # ErrNil \/ "size" \notin DOMAIN mp THEN st
    ELSE LET sz == ToSize(mp["size"])
         IN  IF sz.err THEN [st EXCEPT !.err = attrMungeError("size")]
             ELSE [st EXCEPT !.rec = SetSize(st.rec, sz.val),
                             !.calls = ("size" :> sz.val) @@ st.calls]

UnmarshalMeta(st, mp) ==
    IF st.err # ErrNil \/ "meta" \notin DOMAIN mp THEN st
    ELSE IF mp["meta"].k = "JSONObject"
         THEN [st EXCEPT !.rec = SetMeta(st.rec, mp["meta"]).rec,
                         !.calls = ("meta" :> mp["meta"]) @@ st.calls]
         ELSE [st EXCEPT !.err = ErrMetaShape]

\* UnmarshalJSON on the receiver r: the receiver afterwards, the setters it
\* called and the error it returned.
UnmarshalJSON(r, data) ==
    LET top == JSONUnmarshalMap(data, GoMap(EmptyMap))
        mp  == top.obj.v
        s0  == [rec |-> r, calls |-> EmptyMap, err |-> ErrNil]
    IN  IF top.err
        THEN [s0 EXCEPT !.err = ErrNonObject]
        ELSE UnmarshalMeta(
               UnmarshalSize(
                 UnmarshalMode(
                   UnmarshalCtime(
                     UnmarshalMtime(
                       UnmarshalAtime(s0, mp), mp), mp), mp), mp), mp)

----------------------------------------------------------------------------
(* Inputs *)

\* A document names at most MaxDocKeys keys.
MaxDocKeys == 2

Moments == 0..MaxMoment

\* 0, rw-r--r--, rwxr-xr-x, and a directory (os.ModeDir is bit 31) rwxr-xr-x.
ModeValues == {U(0), U(420), U(493), <<0, 0, Pow2(15), 493>>}

\* 0, 42, 2^53 and 2^53 + 1.
SizeValues == {U(0), U(42), <<Pow2(5), 0, 0, 0>>, <<Pow2(5), 0, 0, 1>>}

KV == "k" :> GoString(<<"v">>)

\* Values handed to SetMeta: maps, the nil map, the nil interface, a struct,
\* raw bytes, and values that serialize to something else than an object.
MetaArgs ==
    << GoMap(EmptyMap),
       GoMap(KV),
       NilMap,
       GoNil,
       [k |-> "struct", v |-> "Name" :> GoString(<<"x">>)],
       GoBytes(JObj("k" :> JStr(<<"v">>))),
       GoBytes(JNull),
       GoBytes(JArr),
       GoBytes(JMalformed),
       GoString(<<"abc">>),
       GoUint64(U(7)),
       GoBool,
       GoSlice,
       GoChan >>

\* The JSON document v serializes to (NoBytes when it does not serialize).
Serialization(v) == IF v.k = "[]byte" THEN v.v[1] ELSE JSONMarshal(v)

DocKeys == {"atime", "mtime", "ctime", "mode", "size", "meta", "name"}

\* A value UnmarshalJSON accepts for the key (two variants of each).
GoodValue(key, variant) ==
    CASE key = "atime" -> JStr(FormatTime(IF variant = 1 THEN 1 ELSE 0))
      [] key = "mtime" -> IF variant = 1 THEN JStr(FormatTime(MaxMoment)) ELSE JNum(U(0))
      [] key = "ctime" -> IF variant = 1 THEN JNum(U(0)) ELSE JStr(FormatTime(MaxMoment))
      [] key = "mode" -> JNum(IF variant = 1 THEN U(493) ELSE <<0, 0, Pow2(15), 420>>)
      [] key = "size" -> IF variant = 1 THEN JNum(U(42)) ELSE JStr(<<"0">>)
      [] key = "meta" -> JObj(IF variant = 1 THEN "k" :> JStr(<<"v">>) ELSE EmptyMap)
      [] key = "name" -> JStr(<<"entry">>)

\* A value UnmarshalJSON rejects for the key.
BadValue(key) ==
    CASE key \in {"atime", "mtime", "ctime", "size"} -> JBool
      [] key = "mode" -> JStr(ModeString(U(493)))
      [] key = "meta" -> JStr(<<"not-an-object">>)

\* The object document with the keys P, all good but for the key bad.
Doc(P, bad, variant) ==
    JObj([key \in P |-> IF key = bad THEN BadValue(key) ELSE GoodValue(key, variant)])

KeySets == {P \in SUBSET DocKeys : Cardinality(P) <= MaxDocKeys}

NonObjectDocs == <<JArr, JStr(<<"abc">>), JNum(U(7)), JBool, JNull, JMalformed>>

----------------------------------------------------------------------------
(* The call log *)

\* An attribute's entry of the log: whether its setter was called, and the
\* last value handed to it (zero, a placeholder, while it was not).
Never(zero) == [set |-> FALSE, v |-> zero]
Some(x)     == [set |-> TRUE, v |-> x]

NoCalls == [atime |-> Never(0), mtime |-> Never(0), ctime |-> Never(0),
            mode |-> Never(U(0)), size |-> Never(U(0)), meta |-> Never(GoNil)]

\* The log after the setter calls in calls (attribute -> argument).
Logged(l, calls) ==
    [attr \in DOMAIN l |-> IF attr \in DOMAIN calls THEN Some(calls[attr]) ELSE l[attr]]

----------------------------------------------------------------------------
(* Specification: a record under construction and decoding *)

Init ==
    /\ a = EntryAttributes
    /\ log = NoCalls
    /\ call = [op |-> "new", kind |-> "-"]
    /\ err = ErrNil
    /\ status = "running"
    /\ wire = NoBytes
    /\ b = EntryAttributes

Returned(op, kind, e) ==
    /\ call' = [op |-> op, kind |-> kind]
    /\ err' = e
    /\ UNCHANGED <<status, wire, b>>

CallSetAtime(t) ==
    /\ status = "running"
    /\ a' = SetAtime(a, t)
    /\ log' = Logged(log, "atime" :> t)
    /\ Returned("SetAtime", "-", ErrNil)

CallSetMtime(t) ==
    /\ status = "running"
    /\ a' = SetMtime(a, t)
    /\ log' = Logged(log, "mtime" :> t)
    /\ Returned("SetMtime", "-", ErrNil)

CallSetCtime(t) ==
    /\ status = "running"
    /\ a' = SetCtime(a, t)
    /\ log' = Logged(log, "ctime" :> t)
    /\ Returned("SetCtime", "-", ErrNil)

CallSetMode(m) ==
    /\ status = "running"
    /\ a' = SetMode(a, m)
    /\ log' = Logged(log, "mode" :> m)
    /\ Returned("SetMode", "-", ErrNil)

CallSetSize(sz) ==
    /\ status = "running"
    /\ a' = SetSize(a, sz)
    /\ log' = Logged(log, "size" :> sz)
    /\ Returned("SetSize", "-", ErrNil)

\* SetMeta either returns, or panics and ends the program.
CallSetMeta(obj) ==
    /\ status = "running"
    /\ LET res == SetMeta(a, obj)
       IN  /\ a' = res.rec
           /\ status' = IF res.panic THEN "aborted" ELSE "running"
           /\ log' = IF res.panic THEN log ELSE Logged(log, "meta" :> obj)
    /\ call' = [op |-> "SetMeta", kind |-> Serialization(obj).k]
    /\ err' = ErrNil
    /\ UNCHANGED <<wire, b>>

CallUnmarshalJSON(data) ==
    /\ status = "running"
    /\ LET res == UnmarshalJSON(a, data)
       IN  /\ a' = res.rec
           /\ log' = Logged(log, res.calls)
           /\ Returned("UnmarshalJSON", data.k, res.err)

Next ==
    \/ \E t \in Moments : CallSetAtime(t)
    \/ \E t \in Moments : CallSetMtime(t)
    \/ \E t \in Moments : CallSetCtime(t)
    \/ \E m \in ModeValues : CallSetMode(m)
    \/ \E sz \in SizeValues : CallSetSize(sz)
    \/ \E i \in 1..Len(MetaArgs) : CallSetMeta(MetaArgs[i])

\* A plugin builds a record with the setters.
Spec == Init /\ [][Next]_vars

NextDecode ==
    \/ \E P \in KeySets : \E bad \in (P \ {"name"}) \cup {"none"} : \E variant \in 1..2 :
            CallUnmarshalJSON(Doc(P, bad, variant))
    \/ \E i \in 1..Len(NonObjectDocs) : CallUnmarshalJSON(NonObjectDocs[i])

\* A record receives documents through UnmarshalJSON.
SpecDecode == Init /\ [][NextDecode]_vars

----------------------------------------------------------------------------
(* Specification: encoding a built record and decoding the result *)

\* The record that the setter calls of the log l build when made in the
\* order of the struct's fields.
Built(l) ==
    LET r1 == IF l.atime.set THEN SetAtime(EntryAttributes, l.atime.v) ELSE EntryAttributes
        r2 == IF l.mtime.set THEN SetMtime(r1, l.mtime.v) ELSE r1
        r3 == IF l.ctime.set THEN SetCtime(r2, l.ctime.v) ELSE r2
        r4 == IF l.mode.set THEN SetMode(r3, l.mode.v) ELSE r3
        r5 == IF l.size.set THEN SetSize(r4, l.size.v) ELSE r4
    IN  IF l.meta.set THEN SetMeta(r5, l.meta.v).rec ELSE r5

\* A choice of what was handed to a setter: the value x, or no call at all.
Choice(x, none, zero) == IF x = none THEN Never(zero) ELSE Some(x)

InitRoundTrip ==
    \E at \in Moments \cup {-1}, mt \in Moments \cup {-1}, ct \in Moments \cup {-1},
       md \in ModeValues \cup {<<>>}, sz \in SizeValues \cup {<<>>},
       i \in 0..Len(MetaArgs) :
        /\ i > 0 => ~ToJSONObject(MetaArgs[i]).panic
        /\ log = [atime |-> Choice(at, -1, 0), mtime |-> Choice(mt, -1, 0),
                  ctime |-> Choice(ct, -1, 0),
                  mode |-> Choice(md, <<>>, U(0)), size |-> Choice(sz, <<>>, U(0)),
                  meta |-> IF i = 0 THEN Never(GoNil) ELSE Some(MetaArgs[i])]
        /\ a = Built(log)
        /\ call = [op |-> "new", kind |-> "-"]
        /\ err = ErrNil
        /\ status = "running"
        /\ wire = NoBytes
        /\ b = EntryAttributes

\* json.Marshal(a): MarshalJSON has a value receiver and leaves a alone.
CallMarshalJSON ==
    /\ status = "running"
    /\ call.op = "new"
    /\ wire' = MarshalJSON(a)
    /\ call' = [op |-> "MarshalJSON", kind |-> wire'.k]
    /\ err' = IF wire'.k = "none" THEN ErrMarshal ELSE ErrNil
    /\ UNCHANGED <<a, log, status, b>>

\* UnmarshalJSON of the encoded document into a fresh record.
CallDecodeWire ==
    /\ status = "running"
    /\ call.op = "MarshalJSON"
    /\ err = ErrNil
    /\ LET res == UnmarshalJSON(EntryAttributes, wire)
       IN  /\ b' = res.rec
           /\ err' = res.err
    /\ call' = [op |-> "UnmarshalJSON", kind |-> wire.k]
    /\ UNCHANGED <<a, log, status, wire>>

NextRoundTrip ==
    \/ CallMarshalJSON
    \/ CallDecodeWire

SpecRoundTrip == InitRoundTrip /\ [][NextRoundTrip]_vars

----------------------------------------------------------------------------
(* Properties *)

AttrsEqual(r1, r2) ==
    /\ Atime(r1) = Atime(r2) /\ HasAtime(r1) = HasAtime(r2)
    /\ Mtime(r1) = Mtime(r2) /\ HasMtime(r1) = HasMtime(r2)
    /\ Ctime(r1) = Ctime(r2) /\ HasCtime(r1) = HasCtime(r2)
    /\ Mode(r1) = Mode(r2) /\ HasMode(r1) = HasMode(r2)
    /\ Size(r1) = Size(r2) /\ HasSize(r1) = HasSize(r2)

\* The entries of a JSON document read as an object (null has none).
Entries(doc) == IF doc.k = "object" THEN doc.v ELSE EmptyMap

\* C1: for a record with no meta override, decoding the output of
\* MarshalJSON into a fresh record succeeds and reproduces atime, mtime,
\* ctime, mode and size and their Has* results exactly.
C1_RoundTripExact ==
    (call.op = "UnmarshalJSON" /\ ~log.meta.set) =>
        (err = ErrNil /\ AttrsEqual(b, a))

\* C2: a call of UnmarshalJSON that returns an error leaves every field and
\* presence flag of the receiver as it was before the call.
C2_AllOrNothing ==
    [][(call'.op = "UnmarshalJSON" /\ err' # ErrNil) => a' = a]_vars

\* C3: SetMeta called with a value whose JSON serialization is not a JSON
\* object never returns normally: the program is aborted.
C3_SetMetaFatal ==
    (call.op = "SetMeta" /\ call.kind # "object") => status = "aborted"

\* C4: UnmarshalJSON of a document that is not a JSON object returns the
\* non-JSON-object error and sets no attribute of the receiver.
C4_NonObjectFails ==
    [][(call'.op = "UnmarshalJSON" /\ call'.kind # "object")
            => (err' = ErrNonObject /\ a' = a)]_vars

\* C5: HasSize is true iff SetSize was called and HasMode is true iff SetMode
\* was called, whatever the values passed (Size is then the last value
\* passed, 0 included), and no step turns HasSize or HasMode back to false.
C5_PresenceIffSet ==
    /\ [](/\ HasSize(a) <=> log.size.set
          /\ HasMode(a) <=> log.mode.set
          /\ log.size.set => Size(a) = log.size.v
          /\ log.mode.set => Mode(a) = log.mode.v)
    /\ [][(HasSize(a) => HasSize(a')) /\ (HasMode(a) => HasMode(a'))]_vars

C5_Witness ==
    /\ call.op = "SetSize" /\ log.size.set /\ log.size.v = U(0)
    /\ HasSize(a) /\ Size(a) = U(0)
    /\ ~log.mode.set /\ ~HasMode(a) /\ Mode(a) = U(0)

\* The moment last handed to the setter of a time attribute; the zero
\* moment when it was never called.
LastMoment(attr) == IF log[attr].set THEN log[attr].v ELSE 0

\* C6: for atime, mtime and ctime, Has<Attr> is true iff the stored moment
\* is non-zero; a record whose last Set<Attr> passed the zero moment and one
\* on which Set<Attr> was never called both have Has<Attr> false, the zero
\* moment as value and no entry in ToMap.
C6_ZeroMomentIsAbsent ==
    /\ HasAtime(a) <=> ~IsZero(Atime(a))
    /\ HasMtime(a) <=> ~IsZero(Mtime(a))
    /\ HasCtime(a) <=> ~IsZero(Ctime(a))
    /\ Atime(a) = LastMoment("atime") /\ (HasAtime(a) <=> LastMoment("atime") # 0)
    /\ Mtime(a) = LastMoment("mtime") /\ (HasMtime(a) <=> LastMoment("mtime") # 0)
    /\ Ctime(a) = LastMoment("ctime") /\ (HasCtime(a) <=> LastMoment("ctime") # 0)
    /\ \A inc \in BOOLEAN :
          /\ "atime" \in DOMAIN ToMap(a, inc) <=> LastMoment("atime") # 0
          /\ "mtime" \in DOMAIN ToMap(a, inc) <=> LastMoment("mtime") # 0
          /\ "ctime" \in DOMAIN ToMap(a, inc) <=> LastMoment("ctime") # 0

C6_Witness ==
    /\ call.op = "SetAtime" /\ log.atime.set /\ log.atime.v = 0
    /\ ~HasAtime(a) /\ "atime" \notin DOMAIN ToMap(a, TRUE)
    /\ HasMtime(a) /\ ~log.ctime.set

\* The attributes Has<Attr> reports present.
Present(r) ==
    {key \in AttrNames :
        \/ key = "atime" /\ HasAtime(r)
        \/ key = "mtime" /\ HasMtime(r)
        \/ key = "ctime" /\ HasCtime(r)
        \/ key = "mode" /\ HasMode(r)
        \/ key = "size" /\ HasSize(r)}

\* C7: ToMap(false) never has a "meta" key, ToMap(true) has one whenever an
\* attribute is present, and apart from "meta" a key is in the map iff its
\* Has<Attr> is true.
C7_ToMapKeys ==
    /\ "meta" \notin DOMAIN ToMap(a, FALSE)
    /\ Present(a) # {} => "meta" \in DOMAIN ToMap(a, TRUE)
    /\ DOMAIN ToMap(a, FALSE) \ {"meta"} = Present(a)
    /\ DOMAIN ToMap(a, TRUE) \ {"meta"} = Present(a)

C7_Witness ==
    /\ log.meta.set /\ a.meta # NilMap /\ HasSize(a) /\ ~HasMode(a)
    /\ DOMAIN ToMap(a, FALSE) = {"size"}
    /\ DOMAIN ToMap(a, TRUE) = {"size", "meta"}

\* C8: once SetMeta was called, Meta() returns the object of the most
\* recent SetMeta; otherwise it returns ToMap(false) of the current record.
C8_MetaIsLastSetMeta ==
    status = "running" =>
        IF log.meta.set
        THEN Entries(JSONMarshal(Meta(a))) = Entries(Serialization(log.meta.v))
        ELSE Meta(a) = GoMap(ToMap(a, FALSE))

\* C9: for a record on which meta was never set, the record decoded from
\* its encoding has a Meta() that reads as the Meta() of the original, now
\* stored as an explicit override.
C9_MetaFallbackBecomesOverride ==
    (call.op = "UnmarshalJSON" /\ ~log.meta.set) =>
        /\ JSONMarshal(Meta(b)) = JSONMarshal(Meta(a))
        /\ b.meta # NilMap

\* C10: the record is the one its last setter arguments build in any fixed
\* order, and each attribute setter changes only the stored value and the
\* presence flag of its own attribute.
C10_SettersCommute ==
    /\ [](a = Built(log))
    /\ [][/\ call'.op = "SetAtime" => a' = [a EXCEPT !.atime = a'.atime]
          /\ call'.op = "SetMtime" => a' = [a EXCEPT !.mtime = a'.mtime]
          /\ call'.op = "SetCtime" => a' = [a EXCEPT !.ctime = a'.ctime]
          /\ call'.op = "SetMode" =>
                a' = [a EXCEPT !.mode = a'.mode, !.hasMode = a'.hasMode]
          /\ call'.op = "SetSize" =>
                a' = [a EXCEPT !.size = a'.size, !.hasSize = a'.hasSize]]_vars

C10_Witness ==
    /\ call.op = "SetAtime" /\ HasAtime(a)
    /\ log.mtime.set /\ log.ctime.set /\ log.mode.set /\ log.size.set /\ log.meta.set
    /\ a = Built(log)

====
